---- MODULE Spec2Model ----
(***************************************************************************)
(* The BLE session lifecycle of src/src/screens/Home.js: the React state   *)
(* of the Home component, the handlers scanDevices, resetList,             *)
(* connectToDevice, disconnectDevice, readDeviceInfoAndBattery and         *)
(* subscribeToHeartRate, the callbacks they register with the BleManager,  *)
(* and the part of the manager's state those handlers drive (discovery,    *)
(* timers, transport connections, characteristic monitors).                *)
(*                                                                         *)
(* Every async handler is cut at its awaits: one action runs the code from *)
(* one await to the next.  JavaScript runs each such piece to completion,  *)
(* and the microtask continuations that follow a resolved promise run      *)
(* before any other event is delivered, so they belong to the same action. *)
(* A handler reads the state captured by the render that created it; the   *)
(* component re-renders after every piece that changed state, so a handler *)
(* started from the UI reads the current state, while the continuation of  *)
(* an earlier call keeps the values it captured.                           *)
(*                                                                         *)
(* Spec offers the four commands at any time (the command surface of the   *)
(* controller); AppSpec offers them as the rendered screen does, behind    *)
(* the disabled props of its buttons and rows.  The radio is the           *)
(* environment: it answers manager.state() with any adapter state, settles *)
(* every request either way, and delivers advertisements while a scan runs *)
(* and notifications while a monitor is registered.  A peripheral stays in *)
(* range: a transport connection ends only through cancelConnection.       *)
(***************************************************************************)
EXTENDS Integers, Sequences, FiniteSets, Bags, TLC

\* ---------------------------------------------------------------- bounds
NumDevices == 2        \* peripherals in radio range, identities 1..NumDevices
MaxScanCalls == 2      \* scanDevices calls awaiting manager.state(), plus armed timers
MaxConnectCalls == 1   \* connectToDevice calls in flight
MaxDisconnectCalls == 1 \* disconnectDevice calls awaiting cancelConnection
MaxAdvertisements == 3 \* named advertisements recorded since DiscoverySet was last cleared

\* ------------------------------------------------------ values and inputs
DeviceIds == 1..NumDevices

\* null of connectedDevice / hrSubscription, and of heartRate
NoDevice == 0
NoHeartRate == -1

\* the string 'N/A' as a battery value (any non-number)
NA == -1

\* the string 'N/A' as code points
NAString == <<78, 47, 65>>

\* advertised names: no name, or a name
Names == {"", "HR"}

\* the states manager.state() can answer with
AdapterStates == {"Unknown", "Resetting", "Unsupported", "Unauthorized", "PoweredOff", "PoweredOn"}

\* raw characteristic payloads (byte sequences) the peripheral may answer with
ManufacturerPayloads == {<<65>>}
BatteryPayloads == {<<>>, <<67>>, <<200>>}
HeartRatePayloads == {<<>>, <<6>>, <<0, 72>>, <<22, 75>>}

\* deviceInfo is <<>> (null) or <<[manufacturer, battery]>>
NoInfo == <<>>

VARIABLES
    devices,          \* useState([]): DiscoverySet, a sequence of [id, name]
    isScanning,       \* useState(false)
    connectedDevice,  \* useState(null): identity of the connected device
    isConnecting,     \* useState(false)
    deviceInfo,       \* useState(null)
    heartRate,        \* useState(null)
    hrSubscription,   \* the `let hrSubscription` of the current render
    discovery,        \* the manager has a device scan running
    timers,           \* pending setTimeout callbacks, in arming order
    conns,            \* identities with an open transport connection
    monitors,         \* identities with a registered heart-rate monitor
    scanCalls,        \* scanDevices calls suspended in ensureBluetoothOn
    connectCalls,     \* connectToDevice calls in flight: a bag of [pc, dev, manufacturer]
    disconnectCalls,  \* disconnectDevice calls suspended in cancelConnection
    alert,            \* the Alert.alert / console.error message of the last step, if any
    adLog             \* identities of the named advertisements delivered since
                      \* devices was last set to []

reactState == <<devices, isScanning, connectedDevice, isConnecting, deviceInfo, heartRate>>
adapterSide == <<discovery, timers, conns, monitors>>
calls == <<scanCalls, connectCalls, disconnectCalls>>
vars == <<devices, isScanning, connectedDevice, isConnecting, deviceInfo, heartRate,
          hrSubscription, discovery, timers, conns, monitors,
          scanCalls, connectCalls, disconnectCalls, alert, adLog>>

allButAlert == <<devices, isScanning, connectedDevice, isConnecting, deviceInfo, heartRate,
                 hrSubscription, discovery, timers, conns, monitors,
                 scanCalls, connectCalls, disconnectCalls, adLog>>

\* a call that returns at once: nothing changes and nothing is surfaced
NoOp == alert' = "none" /\ UNCHANGED allButAlert

Init ==
    /\ devices = <<>>
    /\ isScanning = FALSE
    /\ connectedDevice = NoDevice
    /\ isConnecting = FALSE
    /\ deviceInfo = NoInfo
    /\ heartRate = NoHeartRate
    /\ hrSubscription = NoDevice
    /\ discovery = FALSE
    /\ timers = <<>>
    /\ conns = {}
    /\ monitors = {}
    /\ scanCalls = 0
    /\ connectCalls = EmptyBag
    /\ disconnectCalls = <<>>
    /\ alert = "none"
    /\ adLog = <<>>

\* ------------------------------------------------------------ helpers

\* prev.some(d => d.id === scannedDevice.id)
Exists(prev, id) == \E k \in 1..Len(prev) : prev[k].id = id

\* the updater with the identity check dropped: every advertisement is appended
AddDeviceUnchecked(prev, scannedDevice) == Append(prev, scannedDevice)

\* the updater passed to setDevices
AddDevice(prev, scannedDevice) ==
    IF ~Exists(prev, scannedDevice.id) THEN Append(prev, scannedDevice) ELSE prev

\* Buffer.readUInt8(offset): the byte at offset, a RangeError past the end
InRange(buffer, offset) == offset + 1 <= Len(buffer)
ReadUInt8(buffer, offset) == buffer[offset + 1]

\* Buffer.toString('utf-8') of the payloads used here: ASCII bytes are their
\* own code points, any other byte decodes to U+FFFD
Utf8(buffer) == [k \in 1..Len(buffer) |-> IF buffer[k] < 128 THEN buffer[k] ELSE 65533]

\* safeRead with the fallback text dropped: an empty string when the read throws
SafeReadEmpty(ok, payload) == IF ok THEN Utf8(payload) ELSE <<>>

\* safeRead: the decoded text, or 'N/A' when the read throws
SafeRead(ok, payload) == IF ok THEN Utf8(payload) ELSE NAString

\* the battery block: readUInt8(0) of the payload, 'N/A' when the read or
\* the decoding throws
BatteryLevel(ok, payload) ==
    IF ok /\ InRange(payload, 0) THEN ReadUInt8(payload, 0) ELSE NA

\* the sample taken from the first byte of the payload, the flags byte
BpmFromFlags(buffer) == ReadUInt8(buffer, 0)

\* the value the monitor callback passes to setHeartRate: the second byte
Bpm(buffer) == ReadUInt8(buffer, 1)

\* `let hrSubscription = null` runs again on every render: the binding a
\* handler of the next render reads is a new one, whatever was assigned to
\* the binding of the render before
RenderBinding(assigned) == NoDevice

\* the connectToDevice calls in flight, and the bag with call c ended or moved on
InFlight == BagToSet(connectCalls)
Ended(c) == connectCalls (-) SetToBag({c})
Continued(c, next) == Ended(c) (+) SetToBag({next})

\* identities whose transport connection is being opened
Opening == {c.dev : c \in {x \in InFlight : x.pc = "connect"}}

\* manager.stopDeviceScan()
StopDeviceScan == discovery' = FALSE

\* the timers after a scan start: the new scan's timer is the only one that
\* belongs to the running discovery
ArmTimer(ts) == Append([k \in 1..Len(ts) |-> FALSE], TRUE)

\* ----------------------------------------------------------- scanning

\* scanDevices up to `await ensureBluetoothOn()`
scanDevices ==
    IF isScanning
    THEN NoOp
    ELSE /\ scanCalls + Len(timers) < MaxScanCalls
         /\ scanCalls' = scanCalls + 1
         /\ alert' = "none"
         /\ UNCHANGED <<reactState, hrSubscription, adapterSide, connectCalls,
                        disconnectCalls, adLog>>

\* ensureBluetoothOn testing for 'PoweredOff' alone: every other state of the
\* radio is taken as ready
ensureBluetoothOnUnlessOff(state) ==
    /\ scanCalls > 0
    /\ scanCalls' = scanCalls - 1
    /\ IF state = "PoweredOff"
       THEN /\ alert' = "Bluetooth is Off"
            /\ UNCHANGED <<reactState, hrSubscription, adapterSide, connectCalls,
                           disconnectCalls, adLog>>
       ELSE /\ devices' = <<>>
            /\ isScanning' = TRUE
            /\ connectedDevice' = NoDevice
            /\ deviceInfo' = NoInfo
            /\ heartRate' = NoHeartRate
            /\ discovery' = TRUE
            /\ timers' = ArmTimer(timers)
            /\ adLog' = <<>>
            /\ alert' = "none"
            /\ UNCHANGED <<isConnecting, hrSubscription, conns, monitors,
                           connectCalls, disconnectCalls>>

\* manager.state() resolves with the radio's state at that moment, which the
\* radio alone decides: the rest of ensureBluetoothOn and of scanDevices
ensureBluetoothOn(state) ==
    /\ scanCalls > 0
    /\ scanCalls' = scanCalls - 1
    /\ IF state # "PoweredOn"
       THEN /\ alert' = "Bluetooth is Off"
            /\ UNCHANGED <<reactState, hrSubscription, adapterSide, connectCalls,
                           disconnectCalls, adLog>>
       ELSE /\ devices' = <<>>
            /\ isScanning' = TRUE
            /\ connectedDevice' = NoDevice
            /\ deviceInfo' = NoInfo
            /\ heartRate' = NoHeartRate
            /\ discovery' = TRUE
            /\ timers' = ArmTimer(timers)
            /\ adLog' = <<>>
            /\ alert' = "none"
            /\ UNCHANGED <<isConnecting, hrSubscription, conns, monitors,
                           connectCalls, disconnectCalls>>

\* the scan callback with the name check dropped
ScanCallbackAnyName(scannedDevice) ==
    /\ discovery
    /\ Len(adLog) < MaxAdvertisements
    /\ devices' = AddDevice(devices, scannedDevice)
    /\ adLog' = Append(adLog, scannedDevice.id)
    /\ alert' = "none"
    /\ UNCHANGED <<isScanning, connectedDevice, isConnecting, deviceInfo, heartRate,
                   hrSubscription, adapterSide, calls>>

\* the scan callback, called with a device
ScanCallback(scannedDevice) ==
    /\ discovery
    /\ IF scannedDevice.name # ""
       THEN /\ Len(adLog) < MaxAdvertisements
            /\ devices' = AddDevice(devices, scannedDevice)
            /\ adLog' = Append(adLog, scannedDevice.id)
       ELSE UNCHANGED <<devices, adLog>>
    /\ alert' = "none"
    /\ UNCHANGED <<isScanning, connectedDevice, isConnecting, deviceInfo, heartRate,
                   hrSubscription, adapterSide, calls>>

\* the scan callback, called with an error; the failed scan delivers nothing more
ScanError ==
    /\ discovery
    /\ isScanning' = FALSE
    /\ discovery' = FALSE
    /\ alert' = "Scan error"
    /\ UNCHANGED <<devices, connectedDevice, isConnecting, deviceInfo, heartRate,
                   hrSubscription, timers, conns, monitors, calls, adLog>>

\* the setTimeout callback; equal delays fire in arming order
ScanTimeout ==
    /\ timers # <<>>
    /\ timers' = Tail(timers)
    /\ StopDeviceScan
    /\ isScanning' = FALSE
    /\ alert' = "none"
    /\ UNCHANGED <<devices, connectedDevice, isConnecting, deviceInfo, heartRate,
                   hrSubscription, conns, monitors, calls, adLog>>

resetList ==
    /\ devices' = <<>>
    /\ connectedDevice' = NoDevice
    /\ deviceInfo' = NoInfo
    /\ heartRate' = NoHeartRate
    /\ adLog' = <<>>
    /\ alert' = "none"
    /\ UNCHANGED <<isScanning, isConnecting, hrSubscription, adapterSide, calls>>

\* --------------------------------------------------------- connecting

\* the catch and finally blocks of connectToDevice, ending call c
ConnectionFailed(c) ==
    /\ alert' = "Connection Failed"
    /\ isConnecting' = FALSE
    /\ isScanning' = FALSE
    /\ connectCalls' = Ended(c)
    /\ UNCHANGED <<devices, connectedDevice, deviceInfo, heartRate, hrSubscription,
                   adapterSide, scanCalls, disconnectCalls, adLog>>

\* connectToDevice(device) up to `await manager.connectToDevice(device.id)`;
\* the `return` of the guard sits inside the try, so the finally block runs
connectToDevice(device) ==
    IF isConnecting
    THEN /\ isConnecting' = FALSE
         /\ isScanning' = FALSE
         /\ alert' = "none"
         /\ UNCHANGED <<devices, connectedDevice, deviceInfo, heartRate, hrSubscription,
                        adapterSide, calls, adLog>>
    ELSE /\ BagCardinality(connectCalls) < MaxConnectCalls
         /\ isConnecting' = TRUE
         /\ StopDeviceScan
         /\ connectCalls' = connectCalls (+)
                SetToBag({[pc |-> "connect", dev |-> device.id, manufacturer |-> <<>>]})
         /\ alert' = "none"
         /\ UNCHANGED <<devices, isScanning, connectedDevice, deviceInfo, heartRate,
                        hrSubscription, timers, conns, monitors,
                        scanCalls, disconnectCalls, adLog>>

\* manager.connectToDevice settles; a device that is connected already is refused
ConnectSettled(c, ok) ==
    /\ c.pc = "connect"
    /\ IF ok
       THEN /\ c.dev \notin conns
            /\ conns' = conns \cup {c.dev}
            /\ connectCalls' = Continued(c, [c EXCEPT !.pc = "discover"])
            /\ alert' = "none"
            /\ UNCHANGED <<reactState, hrSubscription, discovery, timers,
                           monitors, scanCalls, disconnectCalls, adLog>>
       ELSE ConnectionFailed(c)

\* connected.discoverAllServicesAndCharacteristics() and the logging loop over
\* services() and characteristics() settle (the loop touches no state); on
\* success setConnectedDevice runs and readDeviceInfoAndBattery issues its
\* first read
DiscoverSettled(c, ok) ==
    /\ c.pc = "discover"
    /\ IF ok
       THEN /\ c.dev \in conns
            /\ connectedDevice' = c.dev
            /\ connectCalls' = Continued(c, [c EXCEPT !.pc = "readManufacturer"])
            /\ alert' = "none"
            /\ UNCHANGED <<devices, isScanning, isConnecting, deviceInfo, heartRate,
                           hrSubscription, adapterSide, scanCalls, disconnectCalls,
                           adLog>>
       ELSE ConnectionFailed(c)

\* the manufacturer read settling with subscribeToHeartRate started alongside
\* the reads instead of after them
ManufacturerSettledSubscribing(c, ok, payload) ==
    /\ c.pc = "readManufacturer"
    /\ ok => c.dev \in conns
    /\ connectCalls' = Continued(c, [c EXCEPT !.pc = "readBattery",
                                              !.manufacturer = SafeRead(ok, payload)])
    /\ monitors' = IF c.dev \in conns THEN monitors \cup {c.dev} ELSE monitors
    /\ alert' = "none"
    /\ UNCHANGED <<reactState, hrSubscription, discovery, timers, conns, scanCalls,
                   disconnectCalls, adLog>>

\* the manufacturer read of safeRead settles; the battery read is issued
ManufacturerSettled(c, ok, payload) ==
    /\ c.pc = "readManufacturer"
    /\ ok => c.dev \in conns
    /\ connectCalls' = Continued(c, [c EXCEPT !.pc = "readBattery",
                                              !.manufacturer = SafeRead(ok, payload)])
    /\ alert' = "none"
    /\ UNCHANGED <<reactState, hrSubscription, adapterSide, scanCalls, disconnectCalls,
                   adLog>>

\* device.monitorCharacteristicForService: the monitor of a device that is
\* not connected ends at once with an error
Monitor(dev) == IF dev \in conns THEN monitors \cup {dev} ELSE monitors

\* the battery read settles: setDeviceInfo, then subscribeToHeartRate, the
\* 'Connected' alert and the finally block of connectToDevice
BatterySettled(c, ok, payload) ==
    /\ c.pc = "readBattery"
    /\ ok => c.dev \in conns
    /\ deviceInfo' = <<[manufacturer |-> c.manufacturer,
                        battery |-> BatteryLevel(ok, payload)]>>
    /\ monitors' = Monitor(c.dev)
    /\ hrSubscription' = RenderBinding(c.dev)
    /\ alert' = "Connected"
    /\ isConnecting' = FALSE
    /\ isScanning' = FALSE
    /\ connectCalls' = Ended(c)
    /\ UNCHANGED <<devices, connectedDevice, heartRate, discovery, timers,
                   conns, scanCalls, disconnectCalls, adLog>>

\* the monitor callback, called with a characteristic value
HeartRateCallback(dev, payload) ==
    /\ dev \in monitors
    /\ IF payload # <<>> /\ InRange(payload, 1)
       THEN heartRate' = Bpm(payload)
       ELSE UNCHANGED heartRate
    /\ alert' = "none"
    /\ UNCHANGED <<devices, isScanning, connectedDevice, isConnecting, deviceInfo,
                   hrSubscription, adapterSide, calls, adLog>>

\* ------------------------------------------------------ disconnecting

\* hrSubscription.remove(), when the binding holds a subscription
RemoveSubscription(sub) == IF sub # NoDevice THEN monitors \ {sub} ELSE monitors

\* disconnectDevice up to `await connectedDevice.cancelConnection()`
disconnectDevice ==
    IF connectedDevice = NoDevice
    THEN NoOp
    ELSE /\ Len(disconnectCalls) < MaxDisconnectCalls
         /\ monitors' = RemoveSubscription(hrSubscription)
         /\ disconnectCalls' = Append(disconnectCalls, connectedDevice)
         /\ alert' = "none"
         /\ UNCHANGED <<reactState, hrSubscription, discovery, timers,
                        conns, scanCalls, connectCalls, adLog>>

\* the finally block of disconnectDevice
Teardown ==
    /\ connectedDevice' = NoDevice
    /\ deviceInfo' = NoInfo
    /\ heartRate' = NoHeartRate

\* cancelConnection settles, with the teardown at the end of the try block
\* instead of in a finally block
CancelSettledWithoutFinally(ok) ==
    /\ disconnectCalls # <<>>
    /\ disconnectCalls' = Tail(disconnectCalls)
    /\ IF ok
       THEN /\ Head(disconnectCalls) \in conns
            /\ conns' = conns \ {Head(disconnectCalls)}
            /\ monitors' = monitors \ {Head(disconnectCalls)}
            /\ alert' = "Disconnected"
            /\ Teardown
       ELSE /\ alert' = "Disconnection error"
            /\ UNCHANGED <<conns, monitors, connectedDevice, deviceInfo, heartRate>>
    /\ UNCHANGED <<devices, isScanning, isConnecting, hrSubscription,
                   discovery, timers, scanCalls, connectCalls, adLog>>

\* cancelConnection settles for the oldest pending call: the alert or the
\* logged error, then the finally block
CancelSettled(ok) ==
    /\ disconnectCalls # <<>>
    /\ disconnectCalls' = Tail(disconnectCalls)
    /\ IF ok
       THEN /\ Head(disconnectCalls) \in conns
            /\ conns' = conns \ {Head(disconnectCalls)}
            /\ monitors' = monitors \ {Head(disconnectCalls)}
            /\ alert' = "Disconnected"
       ELSE /\ alert' = "Disconnection error"
            /\ UNCHANGED <<conns, monitors>>
    /\ Teardown
    /\ UNCHANGED <<devices, isScanning, isConnecting, hrSubscription, discovery, timers, scanCalls, connectCalls, adLog>>

\* ------------------------------------------------------ specifications

Advertisements == [id : DeviceIds, name : Names]
Listed == {devices[k] : k \in 1..Len(devices)}

Environment ==
    \/ \E state \in AdapterStates : ensureBluetoothOn(state)
    \/ \E ad \in Advertisements : ScanCallback(ad)
    \/ ScanError
    \/ ScanTimeout
    \/ \E c \in InFlight, ok \in BOOLEAN : ConnectSettled(c, ok)
    \/ \E c \in InFlight, ok \in BOOLEAN : DiscoverSettled(c, ok)
    \/ \E c \in InFlight, ok \in BOOLEAN, p \in ManufacturerPayloads : ManufacturerSettled(c, ok, p)
    \/ \E c \in InFlight, ok \in BOOLEAN, p \in BatteryPayloads : BatterySettled(c, ok, p)
    \/ \E d \in DeviceIds, p \in HeartRatePayloads : HeartRateCallback(d, p)
    \/ \E ok \in BOOLEAN : CancelSettled(ok)

\* the commands of the controller, callable at any time
Next ==
    \/ scanDevices
    \/ resetList
    \/ \E device \in Listed : connectToDevice(device)
    \/ disconnectDevice
    \/ Environment

Spec == Init /\ [][Next]_vars

\* the commands as the rendered screen offers them: the disabled props of the
\* buttons and list rows, and the Disconnect button shown while connected
ScanPressed == ~(isScanning \/ isConnecting) /\ scanDevices
ResetPressed == ~(isScanning \/ isConnecting) /\ resetList
RowPressed(item) == ~(isConnecting \/ connectedDevice = item.id) /\ connectToDevice(item)
DisconnectPressed == connectedDevice # NoDevice /\ disconnectDevice

NextApp ==
    \/ ScanPressed
    \/ ResetPressed
    \/ \E item \in Listed : RowPressed(item)
    \/ DisconnectPressed
    \/ Environment

AppSpec == Init /\ [][NextApp]_vars

\* ------------------------------------------------------------- claims

\* no Session: none connected, none being set up or torn down
NoSession == connectedDevice = NoDevice /\ InFlight = {} /\ disconnectCalls = <<>>

\* C1: at most one peripheral transport connection is open or being opened,
\* in every reachable state.
C1_AtMostOneTransport == Cardinality(conns \cup Opening) <= 1

\* C2: a heart-rate notification of the device whose disconnect has been
\* called does not change heartRate.
C2_NoSampleAfterDisconnect ==
    [][\A d \in DeviceIds, p \in HeartRatePayloads :
          (disconnectCalls # <<>> /\ Head(disconnectCalls) = d /\ HeartRateCallback(d, p))
              => heartRate' = heartRate]_vars

\* C3: when a connect attempt fails, the controller is no longer connecting,
\* the failure is surfaced, and the transport connection the attempt had
\* opened is open no more.
C3_FailedConnectLeavesNoTransport ==
    [][\A c \in InFlight :
          ConnectionFailed(c) =>
              /\ isConnecting' = FALSE
              /\ alert' = "Connection Failed"
              /\ c.pc = "discover" => c.dev \notin conns']_vars

\* C4: a connectToDevice call made while isConnecting is true changes no
\* state: isConnecting stays true and isScanning keeps its value.
C4_RejectedConnectChangesNothing ==
    [][\A device \in Listed :
          (isConnecting /\ connectToDevice(device)) =>
              /\ isConnecting' = TRUE
              /\ isScanning' = isScanning
              /\ UNCHANGED <<devices, connectedDevice, deviceInfo, heartRate,
                             adapterSide, calls>>]_vars

\* C5: in every reachable state with no Session there is no active
\* heart-rate subscription.
C5_NoSubscriptionWithoutSession == NoSession => monitors = {}

\* the promise of cancelConnection settles, one way or the other
LiveSpec == Spec /\ WF_vars(\E ok \in BOOLEAN : CancelSettled(ok))

\* the state the finally block of disconnectDevice leaves
TornDown == connectedDevice = NoDevice /\ deviceInfo = NoInfo /\ heartRate = NoHeartRate

C7_SecondStartScanIsNoOp ==
    [][/\ (isScanning /\ scanDevices) => UNCHANGED allButAlert
       /\ \A state \in AdapterStates :
             (isScanning /\ ensureBluetoothOn(state)) =>
                 UNCHANGED <<devices, discovery, timers>>]_vars

\* C8: an advertisement delivered to the scan callback while isScanning is
\* false leaves devices unchanged.
C8_NoAdvertisementAfterScanEnd ==
    [][\A ad \in Advertisements :
          (~isScanning /\ ScanCallback(ad)) => devices' = devices]_vars

\* the four pieces of state resetList clears
Cleared ==
    /\ devices = <<>>
    /\ connectedDevice = NoDevice
    /\ deviceInfo = NoInfo
    /\ heartRate = NoHeartRate

\* no scan is running and no call is in flight
Quiescent == ~discovery /\ scanCalls = 0 /\ InFlight = {} /\ disconnectCalls = <<>>

\* C9: resetList empties devices, connectedDevice, deviceInfo and heartRate
\* and leaves every adapter-side resource untouched; and in the state it
\* leaves, with no scan running and no call in flight, no event other than a
\* command can make any of the four non-empty.
C9_ResetListClearsAndStaysCleared ==
    [][resetList =>
          /\ Cleared'
          /\ UNCHANGED adapterSide
          /\ (Quiescent => ~ ENABLED (Environment /\ ~Cleared'))']_vars

\* the identities listed in devices, in list order
ListedIds == [k \in 1..Len(devices) |-> devices[k].id]

\* the position at which identity id was first delivered
FirstSeen(id) == CHOOSE k \in 1..Len(adLog) : adLog[k] = id /\ \A j \in 1..(k - 1) : adLog[j] # id

\* C10: devices lists every identity delivered with a name since it was last
\* cleared, each exactly once, in the order in which each was first seen.
C10_EachIdentityOnceInFirstSeenOrder ==
    /\ {ListedIds[k] : k \in 1..Len(devices)} = {adLog[k] : k \in 1..Len(adLog)}
    /\ \A a, b \in 1..Len(devices) :
          a < b => /\ ListedIds[a] # ListedIds[b]
                   /\ FirstSeen(ListedIds[a]) < FirstSeen(ListedIds[b])

\* an identity came again after another one was seen, and is listed once
C10_Witness == adLog = <<1, 2, 1>> /\ ListedIds = <<1, 2>>

\* C11: every peripheral listed in devices has a non-empty advertised name.
C11_OnlyNamedDevicesListed == \A k \in 1..Len(devices) : devices[k].name # ""

\* a scan is running with a device listed, and an advertisement without a
\* name can be delivered to the callback
C11_Witness ==
    /\ devices # <<>>
    /\ \E id \in DeviceIds : ~Exists(devices, id) /\ ENABLED ScanCallback([id |-> id, name |-> ""])

\* C12: readDeviceInfoAndBattery never fails as a whole and isolates its two
\* reads: a failed manufacturer read yields 'N/A' and the battery read is
\* still issued, a successful one yields the decoded text; when the battery
\* read settles, deviceInfo holds the manufacturer result and the decoded
\* battery byte or 'N/A', and the sequence goes on to subscribe and to the
\* 'Connected' alert.
C12_ReadsIsolated ==
    [][\A c \in InFlight, ok \in BOOLEAN :
        /\ \A p \in ManufacturerPayloads :
             ManufacturerSettled(c, ok, p) =>
               \E d \in InFlight' :
                 /\ d.pc = "readBattery"
                 /\ d.dev = c.dev
                 /\ d.manufacturer = IF ok THEN p ELSE <<78, 47, 65>>
        /\ \A p \in BatteryPayloads :
             BatterySettled(c, ok, p) =>
               /\ deviceInfo' = <<[manufacturer |-> c.manufacturer,
                                   battery |-> IF ok /\ p # <<>> THEN p[1] ELSE NA]>>
               /\ c.dev \in conns => c.dev \in monitors'
               /\ alert' = "Connected"]_vars

\* the manufacturer read failed and the battery read succeeded, and the
\* sequence went on to subscribe
C12_Witness ==
    /\ deviceInfo = <<[manufacturer |-> NAString, battery |-> 67]>>
    /\ alert = "Connected"
    /\ monitors # {}

\* C13: while a monitor is registered, each notification whose payload has
\* at least two bytes sets heartRate to the second byte of that payload,
\* whatever the first byte and the previous sample were.
C13_SampleIsSecondByte ==
    [][\A dev \in DeviceIds, payload \in HeartRatePayloads :
        (HeartRateCallback(dev, payload) /\ Len(payload) >= 2) =>
          heartRate' = payload[2]]_vars

\* the sample is the second byte of a payload whose first byte is not zero,
\* and the monitor can deliver a further notification that overwrites it
C13_Witness ==
    /\ heartRate = 75
    /\ \E dev \in monitors : ENABLED (HeartRateCallback(dev, <<0, 72>>) /\ heartRate' = 72)

\* C14: a scanDevices call that finds the adapter in any state other than
\* PoweredOn raises the 'Bluetooth is Off' alert, starts no discovery and no
\* timer, and leaves devices, isScanning, connectedDevice, deviceInfo and
\* heartRate as they were; and a step that starts a scan leaves devices empty.
C14_AdapterNotReadyChangesNothing ==
    [][/\ \A state \in AdapterStates \ {"PoweredOn"} :
            ensureBluetoothOn(state) =>
              /\ alert' = "Bluetooth is Off"
              /\ UNCHANGED <<devices, isScanning, connectedDevice, deviceInfo,
                             heartRate, discovery, timers>>
       /\ Len(timers') > Len(timers) => (discovery' /\ devices' = <<>>)]_vars

\* a scan call has just failed on the adapter state with devices of an
\* earlier scan still listed
C14_Witness ==
    /\ alert = "Bluetooth is Off"
    /\ devices # <<>>
    /\ ~discovery
    /\ ~isScanning

\* C15: while a connectToDevice call is between its start and its completion
\* the guard of connectToDevice (isConnecting) is closed, so no further call
\* is admitted, also after calls that were rejected in between.
C15_GuardClosedWhileInFlight == InFlight # {} => isConnecting

\* C16: discovery is never active while a connectToDevice call is in flight.
C16_NoDiscoveryWhileConnecting == ~(discovery /\ InFlight # {})

\* C17: a timer that fires while a discovery is active is the timer armed by
\* the scanDevices call that started that discovery.
C17_OnlyOwnTimerStopsScan ==
    [][(ScanTimeout /\ discovery) => Head(timers)]_vars

\* the order of the awaited steps of one connectToDevice call
StepOrder ==
    {<<"connect", "discover">>, <<"discover", "readManufacturer">>,
     <<"readManufacturer", "readBattery">>}

\* C18: within one connectToDevice call the steps run in order: a call starts
\* at the transport connect and moves one step at a time, reaches service
\* discovery with the transport connected, reaches the reads with discovery
\* done and the session recorded, and a monitor is registered only by the
\* step that completes the battery read, after the manufacturer read, with
\* deviceInfo set.
C18_StepsInOrder ==
    [][/\ \A d \in InFlight' :
            CopiesIn(d, connectCalls') > CopiesIn(d, connectCalls) =>
              /\ \/ d.pc = "connect"
                 \/ \E c \in InFlight :
                      /\ CopiesIn(c, connectCalls') < CopiesIn(c, connectCalls)
                      /\ c.dev = d.dev
                      /\ <<c.pc, d.pc>> \in StepOrder
              /\ d.pc = "discover" => d.dev \in conns'
              /\ d.pc = "readManufacturer" => connectedDevice' = d.dev
       /\ \A dev \in monitors' \ monitors :
            \E c \in InFlight :
              /\ CopiesIn(c, connectCalls') < CopiesIn(c, connectCalls)
              /\ c.dev = dev
              /\ c.pc = "readBattery"
              /\ deviceInfo' = <<[manufacturer |-> c.manufacturer,
                                  battery |-> deviceInfo'[1].battery]>>]_vars

\* a connect sequence has run to its end: the session is recorded, both reads
\* are stored and the monitor is registered
C18_Witness ==
    /\ alert = "Connected"
    /\ connectedDevice \in monitors
    /\ connectedDevice \in conns
    /\ deviceInfo # NoInfo

\* C19: the battery field of deviceInfo is 'N/A' or an integer from 0 to 100.
C19_BatteryInRange ==
    deviceInfo # NoInfo =>
      (deviceInfo[1].battery = NA \/ deviceInfo[1].battery \in 0..100)

\* C20: whenever connectedDevice is null, deviceInfo and heartRate are null.
C20_NoDataWithoutSession ==
    connectedDevice = NoDevice => (deviceInfo = NoInfo /\ heartRate = NoHeartRate)

====
